---- MODULE Spec2Model ----
(***************************************************************************)
(* Model of report_generator (src/generate_report.py): a command-line tool *)
(* that asks a Perforce client for the pending and submitted changes of a  *)
(* user in a date range, composes a text report, and optionally sends the  *)
(* report with a user prompt to an Ollama endpoint.                        *)
(*                                                                         *)
(* Python strings are modelled as sequences of one-character strings, so   *)
(* that startswith, split, strip, replace and the lexicographic comparison *)
(* of dates are computed the way the interpreter computes them.  Optional  *)
(* values (None or a value) are sequences of length 0 or 1.  File contents *)
(* are modelled at the level of decoded text.                              *)
(***************************************************************************)
EXTENDS Integers, Sequences, FiniteSets, TLC

VARIABLES
    pc,                    \* position of the run
    args,                  \* parsed command line (argparse namespace)
    fs,                    \* files: raw report, prompt file, AI report
    fs0,                   \* the files as they were when the run started
    p4_log,                \* client invocations made so far, in order
    http_log,              \* HTTP requests made so far, in order
    client_output,         \* stdout of `p4 client -o`
    depot_paths,           \* depot paths used as path filter (Some/None)
    pending_output,        \* stdout of the pending-changes query
    pending_changes,       \* result of parse_pending_changes
    submitted_output,      \* stdout of the short submitted query
    submitted_output_full, \* stdout of the long submitted query
    report,                \* the StringIO buffer: the writes made, in order
    raw_report,            \* main's raw_report (Some text / None)
    custom_prompt,         \* main's custom_prompt (Some text / None)
    summary,               \* main's summary (Some text / None)
    exit_code,             \* process exit status (Some code / None while running)
    stderr                 \* the diagnostics printed so far (message kinds)

vars == <<pc, args, fs, fs0, p4_log, http_log, client_output, depot_paths,
          pending_output, pending_changes, submitted_output,
          submitted_output_full, report, raw_report, custom_prompt, summary,
          exit_code, stderr>>

----------------------------------------------------------------------------
(* Bounds of the model.                                                    *)

\* Lines of a pending listing (ParseSpec).
MaxLines == 3

\* Lines of a workspace definition (ViewSpec).
MaxViewLines == 4

\* Characters of the custom prompt and of the report (CtxSpec).
MaxPrompt == 6

MaxReport == 8

----------------------------------------------------------------------------
(* Optional values and Python strings.                                     *)

None == <<>>
Some(x) == <<x>>
IsNone(o) == Len(o) = 0
Val(o) == o[1]

\* Python truthiness of an Optional[str] / Optional[list]: None and the
\* empty string / empty list are both false.
Truthy(o) == Len(o) = 1 /\ Len(o[1]) > 0

DigitChars == <<"0", "1", "2", "3", "4", "5", "6", "7", "8", "9">>

IsDigit(c) == \E i \in 1..10 : DigitChars[i] = c

DigitVal(c) == (CHOOSE i \in 1..10 : DigitChars[i] = c) - 1

\* Code point of a character (ASCII), for the characters the model uses.
Ord(c) ==
    IF IsDigit(c) THEN 48 + DigitVal(c)
    ELSE CASE c = "\t" -> 9
           [] c = "\n" -> 10
           [] c = " " -> 32
           [] c = "-" -> 45
           [] c = "." -> 46
           [] c = "/" -> 47
           [] c = ":" -> 58
           [] c = "=" -> 61
           [] c = "@" -> 64
           [] c = "|" -> 124
           [] OTHER -> 100

IsSpace(c) == c \in {" ", "\t", "\n", "\r"}

\* str.startswith
StartsWith(s, p) == Len(s) >= Len(p) /\ SubSeq(s, 1, Len(p)) = p

\* str.replace for one-character patterns
Replace(s, a, b) == [i \in 1..Len(s) |-> IF s[i] = a THEN b ELSE s[i]]

\* The k-th smallest element of a finite set of integers.
NthOf(P, k) == CHOOSE i \in P : Cardinality({j \in P : j <= i}) = k

\* str.strip()
Strip(s) ==
    LET keep == {i \in 1..Len(s) : ~IsSpace(s[i])}
    IN IF keep = {} THEN <<>>
       ELSE SubSeq(s, NthOf(keep, 1), NthOf(keep, Cardinality(keep)))

\* str.split(sep) for a one-character separator: keeps empty fields.
Split(s, sep) ==
    LET P == {i \in 1..Len(s) : s[i] = sep}
        n == Cardinality(P)
        cut(k) == IF k = 0 THEN 0 ELSE IF k = n + 1 THEN Len(s) + 1 ELSE NthOf(P, k)
    IN [k \in 1..(n + 1) |-> SubSeq(s, cut(k - 1) + 1, cut(k) - 1)]

\* str.split(): runs of whitespace separate, no empty fields.
SplitWs(s) ==
    LET starts == {i \in 1..Len(s) : ~IsSpace(s[i]) /\ (i = 1 \/ IsSpace(s[i - 1]))}
        ends == {i \in 1..Len(s) : ~IsSpace(s[i]) /\ (i = Len(s) \/ IsSpace(s[i + 1]))}
    IN [k \in 1..Cardinality(starts) |-> SubSeq(s, NthOf(starts, k), NthOf(ends, k))]

\* Concatenation of a sequence of strings (StringIO.getvalue, "".join).
RECURSIVE Concat(_)
Concat(ss) == IF ss = <<>> THEN <<>> ELSE Head(ss) \o Concat(Tail(ss))

\* sep.join(ss)
RECURSIVE Join(_, _)
Join(ss, sep) ==
    IF ss = <<>> THEN <<>>
    ELSE IF Len(ss) = 1 THEN ss[1]
    ELSE ss[1] \o sep \o Join(Tail(ss), sep)

\* Python's comparison of strings: lexicographic by code point.
RECURSIVE StrLE(_, _)
StrLE(a, b) ==
    IF a = <<>> THEN TRUE
    ELSE IF b = <<>> THEN FALSE
    ELSE IF Head(a) = Head(b) THEN StrLE(Tail(a), Tail(b))
    ELSE Ord(Head(a)) < Ord(Head(b))

StrGE(a, b) == StrLE(b, a)

\* Decimal rendering of a natural number (f"{n}").
RECURSIVE Dec(_)
Dec(n) == IF n < 10 THEN <<DigitChars[n + 1]>>
          ELSE Dec(n \div 10) \o <<DigitChars[(n % 10) + 1]>>

\* Value of a string of decimal digits (int(s)).
RECURSIVE IntOf(_)
IntOf(s) == IF s = <<>> THEN 0
            ELSE 10 * IntOf(SubSeq(s, 1, Len(s) - 1)) + DigitVal(s[Len(s)])

AllDigits(s) == s # <<>> /\ \A i \in 1..Len(s) : IsDigit(s[i])

Pad(s, w) == IF Len(s) >= w THEN s ELSE [i \in 1..(w - Len(s)) |-> "0"] \o s

----------------------------------------------------------------------------
(* Calendar dates.  A date is [y, m, d]; the program only sees its text.   *)

IsLeap(y) == (y % 4 = 0 /\ y % 100 # 0) \/ y % 400 = 0

DaysInMonth(y, m) ==
    IF m = 2 THEN (IF IsLeap(y) THEN 29 ELSE 28)
    ELSE IF m \in {4, 6, 9, 11} THEN 30 ELSE 31

RECURSIVE DaysBeforeMonth(_, _)
DaysBeforeMonth(y, m) ==
    IF m = 1 THEN 0 ELSE DaysBeforeMonth(y, m - 1) + DaysInMonth(y, m - 1)

\* Proleptic ordinal of a date (datetime.toordinal).
DayNum(dt) ==
    LET y1 == dt.y - 1
    IN 365 * y1 + (y1 \div 4) - (y1 \div 100) + (y1 \div 400)
       + DaysBeforeMonth(dt.y, dt.m) + dt.d

\* The text of a date in the fixed-width form YYYY<sep>MM<sep>DD.
FormatDate(dt, sep) ==
    Pad(Dec(dt.y), 4) \o <<sep>> \o Pad(Dec(dt.m), 2) \o <<sep>> \o Pad(Dec(dt.d), 2)

----------------------------------------------------------------------------
(* String literals of the source.                                          *)

S_Change == <<"C","h","a","n","g","e"," ">>
S_View == <<"V","i","e","w",":">>
S_SlashSlash == <<"/","/">>
S_Tab == <<"\t">>
S_Dash == <<"-">>

----------------------------------------------------------------------------
(* parse_pending_changes: the change-list parser.                          *)
(* Python's list `changes` holds references to the dicts it appends, and   *)
(* `current_change` is one more reference: `recs` is the heap of the dicts *)
(* created so far, `changes` and `cur` hold indices into it (cur = 0 is    *)
(* None), so that a dict appended twice is one object seen twice.          *)

\* The range test with the bounds excluded (> for >=, < for <=).
InRangeExclusive(change_date, start_date_str, end_date_str) ==
    /\ ~StrLE(change_date, start_date_str)
    /\ (Truthy(end_date_str) => ~StrGE(change_date, Val(end_date_str)))

\* Lines 74-78 and 96-100: the date-range test on a record's date.
InRange(change_date, start_date_str, end_date_str) ==
    /\ StrGE(change_date, start_date_str)
    /\ (Truthy(end_date_str) => StrLE(change_date, Val(end_date_str)))

\* Lines 73-79 and 95-101: append the current change if it is in range.
Finalize(st, start_date_str, end_date_str) ==
    IF st.cur # 0 /\ InRange(st.recs[st.cur].date, start_date_str, end_date_str)
    THEN [st EXCEPT !.changes = Append(@, st.cur)]
    ELSE st

\* Lines 82-89: a header line opens a new record when it has 4 tokens.
OpenChange(st, line) ==
    LET parts == SplitWs(line)
    IN IF Len(parts) >= 4
       THEN [st EXCEPT !.recs = Append(@, [number |-> parts[2],
                                            date |-> parts[4],
                                            header |-> line,
                                            description |-> <<>>]),
                       !.cur = Len(st.recs) + 1]
       ELSE st

\* Lines 69-92: the body of the loop over the lines.
ParseLine(st, line, start_date_str, end_date_str) ==
    IF StartsWith(line, S_Change)
    THEN OpenChange(Finalize(st, start_date_str, end_date_str), line)
    ELSE IF st.cur # 0 /\ StartsWith(line, S_Tab)
    THEN [st EXCEPT !.recs[st.cur].description = Append(@, line)]
    ELSE st

RECURSIVE ParseLines(_, _, _, _)
ParseLines(st, lines, start_date_str, end_date_str) ==
    IF lines = <<>> THEN st
    ELSE ParseLines(ParseLine(st, Head(lines), start_date_str, end_date_str),
                    Tail(lines), start_date_str, end_date_str)

\* Lines 59-103.  start_date is a string, end_date an Optional string.
parse_pending_changes(output, start_date, end_date) ==
    LET lines == Split(output, "\n")
        start_date_str == Replace(start_date, "-", "/")
        end_date_str == IF Truthy(end_date)
                        THEN Some(Replace(Val(end_date), "-", "/"))
                        ELSE None
        st0 == [changes |-> <<>>, cur |-> 0, recs |-> <<>>]
        st1 == ParseLines(st0, lines, start_date_str, end_date_str)
        st2 == Finalize(st1, start_date_str, end_date_str)
    IN [i \in 1..Len(st2.changes) |-> st2.recs[st2.changes[i]]]

----------------------------------------------------------------------------
(* get_workspace_depot_paths: the parsing of the workspace definition.     *)

\* Lines 36-55: the body of the loop; st.done records the `break`.
ViewLine(st, line) ==
    IF st.done THEN st
    ELSE IF StartsWith(line, S_View) THEN [st EXCEPT !.in_view_section = TRUE]
    ELSE IF ~st.in_view_section THEN st
    ELSE LET l == Strip(line)
         IN IF l = <<>> THEN st
            ELSE IF StartsWith(l, S_SlashSlash)
            THEN LET parts == SplitWs(l)
                 IN IF parts # <<>> /\ ~StartsWith(parts[1], S_Dash)
                    THEN [st EXCEPT !.depot_paths = Append(@, parts[1])]
                    ELSE st
            ELSE [st EXCEPT !.done = TRUE]

RECURSIVE ViewLines(_, _)
ViewLines(st, lines) ==
    IF lines = <<>> THEN st ELSE ViewLines(ViewLine(st, Head(lines)), Tail(lines))

\* Lines 33-57: the depot paths read from the output of `p4 client -o`.
ParseView(output) ==
    ViewLines([depot_paths |-> <<>>, in_view_section |-> FALSE, done |-> FALSE],
              Split(output, "\n")).depot_paths

----------------------------------------------------------------------------
(* generate_ai_report: the prompt and the context size.                    *)

\* int.bit_length(): the number of bits of the absolute value.
RECURSIVE BitLength(_)
BitLength(n) ==
    IF n < 0 THEN BitLength(-n)
    ELSE IF n = 0 THEN 0 ELSE 1 + BitLength(n \div 2)

RECURSIVE Pow2(_)
Pow2(k) == IF k = 0 THEN 1 ELSE 2 * Pow2(k - 1)

\* Line 197: int((len(prompt) / 3) * 2).  The quotient is a float; the
\* truncation of its double equals the integer quotient of 2*len by 3 for
\* every length a prompt can have (the rounding error is below 1/3).
TokenEstimate(len) == (2 * len) \div 3

\* The rounding without the decrement: 1 << num_ctx.bit_length()
RoundPow2NoDecrement(n) == Pow2(BitLength(n))

\* Line 198: 1 << (num_ctx - 1).bit_length()
RoundPow2(n) == Pow2(BitLength(n - 1))

\* Line 192: f"{custom_prompt}\n\n{report_text}"
BuildPrompt(custom_prompt_, report_text) == custom_prompt_ \o <<"\n", "\n">> \o report_text

\* Lines 197-198.
NumCtx(prompt) == RoundPow2(TokenEstimate(Len(prompt)))

----------------------------------------------------------------------------
(* Inputs.                                                                 *)

Date(y, m, d) == [y |-> y, m |-> m, d |-> d]

\* "Change <number> on <YYYY/MM/DD> by al@ws", the line `p4 changes` prints.
ChangeHeader(number, dt) ==
    S_Change \o Dec(number) \o <<" ","o","n"," ">> \o FormatDate(dt, "/")
        \o <<" ","b","y"," ","a","l","@","w","s">>

\* A tab-indented description line.
DescriptionLine == <<"\t","f","i","x"," ","b","u","g">>

\* A line that starts with "Change " and has three tokens.
ShortHeader == <<"C","h","a","n","g","e"," ","7"," ","o","n">>

HeaderDates == {Date(2023, 12, 31), Date(2024, 1, 1), Date(2024, 1, 31), Date(2024, 2, 1)}

StartDates == {Date(2023, 12, 31), Date(2024, 1, 1)}

EndDates == {Date(2024, 1, 31)}

ListingLines ==
    {ChangeHeader(100 + dt.d, dt) : dt \in HeaderDates}
        \cup {DescriptionLine, ShortHeader, <<>>}

RECURSIVE SeqsUpTo(_, _)
SeqsUpTo(S, n) ==
    IF n = 0 THEN {<<>>}
    ELSE LET shorter == SeqsUpTo(S, n - 1)
         IN shorter \cup {Append(q, x) : q \in shorter, x \in S}

\* The command line of a run that only sets the date range.
ArgsWithDates(start, end) ==
    [start_date |-> start, end_date |-> end, depot |-> None,
     raw_output |-> None, raw_reuse |-> FALSE,
     prompt_file |-> None, ai_output |-> None]

NoFiles == [raw |-> None, prompt |-> None, ai |-> None, written |-> {}]

\* The values of the variables a specification does not use.
Idle(names) ==
    /\ ("args" \in names => args = ArgsWithDates(FormatDate(Date(2024, 1, 1), "-"), None))
    /\ ("fs" \in names => fs = NoFiles /\ fs0 = NoFiles)
    /\ ("p4_log" \in names => p4_log = <<>>)
    /\ ("http_log" \in names => http_log = <<>>)
    /\ ("client_output" \in names => client_output = None)
    /\ ("depot_paths" \in names => depot_paths = None)
    /\ ("pending_output" \in names => pending_output = None)
    /\ ("pending_changes" \in names => pending_changes = <<>>)
    /\ ("submitted" \in names => submitted_output = None /\ submitted_output_full = None)
    /\ ("report" \in names => report = <<>>)
    /\ ("raw_report" \in names => raw_report = None)
    /\ ("custom_prompt" \in names => custom_prompt = None)
    /\ ("summary" \in names => summary = None)
    /\ ("exit_code" \in names => exit_code = None)
    /\ ("stderr" \in names => stderr = <<>>)

AllNames == {"args", "fs", "p4_log", "http_log", "client_output", "depot_paths",
             "pending_output", "pending_changes", "submitted", "report",
             "raw_report", "custom_prompt", "summary", "exit_code", "stderr"}

----------------------------------------------------------------------------
(* run_p4_command and the commands generate_raw_report builds.  A command  *)
(* is the argument vector: a sequence of strings.                          *)

S_p4 == <<"p","4">>
S_u == <<"-","u">>
S_c == <<"-","c">>
S_p == <<"-","p">>
S_l == <<"-","l">>
S_s == <<"-","s">>
S_o == <<"-","o">>
S_client == <<"c","l","i","e","n","t">>
S_changes == <<"c","h","a","n","g","e","s">>
S_pending == <<"p","e","n","d","i","n","g">>
S_submitted == <<"s","u","b","m","i","t","t","e","d">>
S_now == <<"n","o","w">>
S_At == <<"@">>
S_CommaAt == <<",","@">>

\* The identity given with -u, -w and -r.
P4User == <<"a","l">>
P4Workspace == <<"w","s">>
P4Server == <<"p","4",":","1","6","6","6">>

\* Line 20: the argument vector of the child process.
P4Cmd(command) ==
    <<S_p4, S_u, P4User, S_c, P4Workspace, S_p, P4Server>> \o command

\* Line 31.
ClientCmd == <<S_client, S_o, P4Workspace>>

\* Lines 117-119: path_filter.
PathFilter(dp) == IF Truthy(dp) THEN Val(dp) ELSE <<>>

\* Lines 122-123 with the f-strings of lines 139, 141, 173 and 175.
RangeSuffix(start_date, end_date) ==
    S_At \o Replace(start_date, "-", "/") \o S_CommaAt
        \o (IF Truthy(end_date) THEN Replace(Val(end_date), "-", "/") ELSE S_now)

RangeArgs(path_filter, start_date, end_date) ==
    IF path_filter # <<>>
    THEN [i \in 1..Len(path_filter) |->
              path_filter[i] \o RangeSuffix(start_date, end_date)]
    ELSE <<RangeSuffix(start_date, end_date)>>

\* Lines 126-128.
PendingCmd(path_filter) ==
    <<S_changes, S_l, S_u, P4User, S_s, S_pending>> \o path_filter

\* Lines 136-141.
SubmittedCmd(path_filter, start_date, end_date) ==
    <<S_changes, S_u, P4User, S_s, S_submitted>>
        \o RangeArgs(path_filter, start_date, end_date)

\* The long query without the path filter.
SubmittedCmdFullAllDepots(path_filter, start_date, end_date) ==
    <<S_changes, S_l, S_u, P4User, S_s, S_submitted>>
        \o <<RangeSuffix(start_date, end_date)>>

\* Lines 170-175.
SubmittedCmdFull(path_filter, start_date, end_date) ==
    <<S_changes, S_l, S_u, P4User, S_s, S_submitted>>
        \o RangeArgs(path_filter, start_date, end_date)

LineStartsWithChange(line) == StartsWith(line, S_Change)

\* Line 146.
SubmittedCount(output) ==
    Len(SelectSeq(Split(output, "\n"), LineStartsWithChange))

----------------------------------------------------------------------------
(* The report: the sequence of the strings written to the StringIO.        *)

S_Title == <<"P","4"," ","C","H","A","N","G","E","S"," ","R","E","P","O","R","T","\n">>
S_DateLabel == <<"D","a","t","e",":"," ">>
S_to == <<" ","t","o"," ">>
S_UserLabel == <<"U","s","e","r",":"," ">>
S_WorkspaceLabel == <<" ","|"," ","W","o","r","k","s","p","a","c","e",":"," ">>
S_ServerLabel == <<" ","|"," ","S","e","r","v","e","r",":"," ">>
S_GeneratedLabel == <<"G","e","n","e","r","a","t","e","d",":"," ">>
S_PendingLabel == <<"P","e","n","d","i","n","g",":"," ">>
S_SubmittedLabel == <<" ","|"," ","S","u","b","m","i","t","t","e","d",":"," ">>
S_NoPending == <<"N","o"," ","p","e","n","d","i","n","g"," ","c","h","a","n","g","e","s"," ","f","o","u","n","d"," ","f","o","r"," ","t","h","i","s"," ","p","e","r","i","o","d",".","\n">>
S_NoSubmitted == <<"N","o"," ","s","u","b","m","i","t","t","e","d"," ","c","h","a","n","g","e","s"," ","f","o","u","n","d"," ","f","o","r"," ","t","h","i","s"," ","p","e","r","i","o","d",".","\n">>
S_NL == <<"\n">>

\* Line 152: f"{'='*60}"
Separator == [i \in 1..60 |-> "="]

\* Lines 152-158: the seven writes of the metadata.
MetadataWrites(start_date, end_date, report_date, n_pending, n_submitted) ==
    << Separator \o S_NL,
       S_Title,
       S_DateLabel \o start_date \o S_to
           \o (IF Truthy(end_date) THEN Val(end_date) ELSE report_date) \o S_NL,
       S_UserLabel \o P4User \o S_WorkspaceLabel \o P4Workspace
           \o S_ServerLabel \o P4Server \o S_NL,
       S_GeneratedLabel \o report_date \o S_NL,
       S_PendingLabel \o Dec(n_pending) \o S_SubmittedLabel \o Dec(n_submitted) \o S_NL,
       Separator \o S_NL \o S_NL >>

\* Lines 163-165: the writes for one change.
ChangeWrites(change) ==
    <<S_NL \o change.header \o S_NL>>
        \o [i \in 1..Len(change.description) |-> change.description[i] \o S_NL]

RECURSIVE AllChangeWrites(_)
AllChangeWrites(changes) ==
    IF changes = <<>> THEN <<>>
    ELSE ChangeWrites(Head(changes)) \o AllChangeWrites(Tail(changes))

\* Lines 161-167.
PendingSection(changes) ==
    IF changes # <<>> THEN AllChangeWrites(changes) ELSE <<S_NoPending>>

\* The submitted section with the test `if submitted_output_full:`.
SubmittedSectionNoStrip(output_full) ==
    IF output_full # <<>> THEN <<output_full \o S_NL>> ELSE <<S_NoSubmitted>>

\* Lines 181-184.
SubmittedSection(output_full) ==
    IF Strip(output_full) # <<>> THEN <<output_full \o S_NL>> ELSE <<S_NoSubmitted>>

----------------------------------------------------------------------------
(* main: validation of the dates.                                          *)

\* datetime.strptime(text, '%Y-%m-%d') succeeds: a four-digit year, a month
\* and a day of one or two digits, and a day that exists in that month.
StrpTimeOk(text) ==
    LET p == Split(text, "-")
    IN /\ Len(p) = 3
       /\ AllDigits(p[1]) /\ Len(p[1]) = 4
       /\ AllDigits(p[2]) /\ Len(p[2]) <= 2
       /\ AllDigits(p[3]) /\ Len(p[3]) <= 2
       /\ IntOf(p[1]) >= 1
       /\ IntOf(p[2]) \in 1..12
       /\ IntOf(p[3]) >= 1
       /\ IntOf(p[3]) <= DaysInMonth(IntOf(p[1]), IntOf(p[2]))

\* Lines 241-247.
DatesValid(a) ==
    /\ StrpTimeOk(a.start_date)
    /\ (Truthy(a.end_date) => StrpTimeOk(Val(a.end_date)))

\* The reuse test without the flag.
ReuseRawIgnoringFlag(a, files) == Truthy(a.raw_output) /\ ~IsNone(files.raw)

\* Line 250: args.raw_output and args.raw_reuse and os.path.isfile(...).
ReuseRaw(a, files) == Truthy(a.raw_output) /\ a.raw_reuse /\ ~IsNone(files.raw)

\* Line 275: args.prompt_file and args.ai_output.
AiRequested(a) == Truthy(a.prompt_file) /\ Truthy(a.ai_output)

S_NoAiReport == <<"N","o"," ","A","I"," ","r","e","p","o","r","t"," ","g","e","n","e","r","a","t","e","d">>

\* Line 214 and lines 215-218: what generate_ai_report returns.  An outcome
\* is [ok, response]: ok is false when requests raises, response is the
\* `response` field of the JSON body (None when the body has none).
AiResult(outcome) ==
    IF ~outcome.ok THEN None
    ELSE IF IsNone(outcome.response) THEN Some(S_NoAiReport)
    ELSE outcome.response

----------------------------------------------------------------------------
(* The environment of a run: what the client prints, what the endpoint     *)
(* answers, the clock, and the command lines and files of the runs.        *)

S_ClientLine == <<"C","l","i","e","n","t",":","\t","w","s">>
S_ViewLine == <<"V","i","e","w",":">>
S_Mapping == <<"\t","/","/","d","e","p","o","t","/","m","a","i","n","/",".",".","."," ","/","/","w","s","/","m","a","i","n","/",".",".",".">>
S_Exclusion == <<"\t","-","/","/","d","e","p","o","t","/","m","a","i","n","/","t","m","p","/",".",".","."," ","/","/","w","s","/","m","a","i","n","/","t","m","p","/",".",".",".">>
S_DepotMain == <<"/","/","d","e","p","o","t","/","m","a","i","n","/",".",".",".">>
S_SubmittedShort == <<"C","h","a","n","g","e"," ","9","0"," ","o","n"," ","2","0","2","4","/","0","1","/","1","5"," ","b","y"," ","a","l","@","w","s"," ","'","d","o","n","e","'","\n">>
S_SubmittedLong == <<"C","h","a","n","g","e"," ","9","0"," ","o","n"," ","2","0","2","4","/","0","1","/","1","5"," ","b","y"," ","a","l","@","w","s","\n","\n","\t","d","o","n","e","\n">>
S_OldReport == <<"o","l","d"," ","r","e","p","o","r","t","\n">>
S_Prompt == <<"S","u","m",":">>
S_Summary == <<"o","k">>
S_RawPath == <<"r","a","w",".","t","x","t">>
S_PromptPath == <<"p",".","t","x","t">>
S_AiPath == <<"a","i",".","t","x","t">>
S_BadDate == <<"0","1","/","0","1","/","2","0","2","4">>
S_NoSuchDay == <<"2","0","2","4","-","0","2","-","3","0">>

\* datetime.now().strftime('%Y-%m-%d %H:%M:%S') at line 151.
ReportDate == <<"2","0","2","4","-","0","3","-","0","1"," ","1","2",":","0","0",":","0","0">>

Text(lines) == Join(lines, S_NL)

\* Workspace definitions: a view with one mapping, a view whose exclusion
\* mapping comes first, and a definition without a view.
ClientOutputs ==
    { Text(<<S_ClientLine, <<>>, S_ViewLine, S_Mapping, <<>>>>),
      Text(<<S_ClientLine, <<>>, S_ViewLine, S_Exclusion, S_Mapping, <<>>>>),
      Text(<<S_ClientLine, <<>>>>) }

\* Pending listings: none, two changes of which one is after the end date,
\* and a change followed by a malformed header line.
PendingOutputs ==
    { <<>>,
      Text(<<ChangeHeader(101, Date(2024, 1, 1)), DescriptionLine, <<>>,
             ChangeHeader(102, Date(2024, 2, 1)), DescriptionLine, <<>>>>),
      Text(<<ChangeHeader(131, Date(2024, 1, 31)), DescriptionLine, ShortHeader, <<>>>>) }

SubmittedOutputs == { <<>>, S_SubmittedShort }

SubmittedFullOutputs == { <<>>, S_NL, S_SubmittedLong }

HttpOutcomes ==
    { [ok |-> FALSE, response |-> None],
      [ok |-> TRUE, response |-> None],
      [ok |-> TRUE, response |-> Some(<<>>)],
      [ok |-> TRUE, response |-> Some(S_Summary)] }

\* The command lines of the runs.  A file is named only by its option.
MainArgs ==
    [start_date : {FormatDate(Date(2024, 1, 1), "-"), S_BadDate},
     end_date : {None, Some(FormatDate(Date(2024, 1, 31), "-")), Some(S_NoSuchDay)},
     depot : {None, Some(<<S_DepotMain>>)},
     raw_output : {None, Some(S_RawPath)},
     raw_reuse : BOOLEAN,
     prompt_file : {None, Some(S_PromptPath)},
     ai_output : {None, Some(S_AiPath)}]

\* The files at the paths the command line names, before the run: the raw
\* report may exist (empty or not), the prompt file may be unreadable
\* (None), empty or not; the AI report does not exist.
MainFiles(a) ==
    [raw : IF Truthy(a.raw_output) THEN {None, Some(<<>>), Some(S_OldReport)} ELSE {None},
     prompt : IF Truthy(a.prompt_file) THEN {None, Some(<<>>), Some(S_Prompt)} ELSE {None},
     ai : {None},
     written : {{}}]

----------------------------------------------------------------------------
(* The run of main, one action per step between two interactions with the  *)
(* outside (child process, file, HTTP request).                            *)

Init ==
    /\ pc = "start"
    /\ args \in MainArgs
    /\ fs \in MainFiles(args)
    /\ fs0 = fs
    /\ Idle(AllNames \ {"args", "fs"})

\* sys.exit(code) after printing msgs.
Exit(code, msgs) ==
    /\ pc' = "exit"
    /\ exit_code' = Some(code)
    /\ stderr' = stderr \o msgs

\* Lines 241-247: an invalid date ends the run.
Main_InvalidDate ==
    /\ pc = "start"
    /\ ~DatesValid(args)
    /\ Exit(1, <<"Error: Invalid date format">>)
    /\ UNCHANGED <<args, fs, fs0, p4_log, http_log, client_output, depot_paths,
                   pending_output, pending_changes, submitted_output,
                   submitted_output_full, report, raw_report, custom_prompt, summary>>

\* Lines 250-259: the raw report is read from the existing file; the read
\* may raise (permissions, decoding), which ends the run.
Main_ReuseRaw ==
    /\ pc = "start"
    /\ DatesValid(args)
    /\ ReuseRaw(args, fs)
    /\ \/ /\ raw_report' = fs.raw
          /\ stderr' = Append(stderr, "Reusing raw report file")
          /\ pc' = "ai"
          /\ UNCHANGED exit_code
       \/ /\ Exit(1, <<"Error reading raw report file">>)
          /\ UNCHANGED raw_report
    /\ UNCHANGED <<args, fs, fs0, p4_log, http_log, client_output, depot_paths,
                   pending_output, pending_changes, submitted_output,
                   submitted_output_full, report, custom_prompt, summary>>

\* Lines 260-266 and 110: generate_raw_report is entered with args.depot.
Main_Generate ==
    /\ pc = "start"
    /\ DatesValid(args)
    /\ ~ReuseRaw(args, fs)
    /\ stderr' = Append(stderr, "Generating raw P4 report...")
    /\ depot_paths' = args.depot
    /\ pc' = IF ~Truthy(args.depot) THEN "p4_client" ELSE "p4_pending"
    /\ UNCHANGED <<args, fs, fs0, p4_log, http_log, client_output,
                   pending_output, pending_changes, submitted_output,
                   submitted_output_full, report, raw_report, custom_prompt,
                   summary, exit_code>>

\* run_p4_command, lines 24-27, with exit status 0.
RunP4FailsExitZero(command) ==
    /\ p4_log' = Append(p4_log, [cmd |-> P4Cmd(command), ok |-> FALSE])
    /\ Exit(0, <<"Error running p4 command", "Output:">>)
    /\ UNCHANGED <<args, fs, fs0, http_log, client_output, depot_paths,
                   pending_output, pending_changes, submitted_output,
                   submitted_output_full, report, raw_report, custom_prompt, summary>>

\* run_p4_command, lines 20-27: the child exits with a non-zero status.
RunP4Fails(command) ==
    /\ p4_log' = Append(p4_log, [cmd |-> P4Cmd(command), ok |-> FALSE])
    /\ Exit(1, <<"Error running p4 command", "Output:">>)
    /\ UNCHANGED <<args, fs, fs0, http_log, client_output, depot_paths,
                   pending_output, pending_changes, submitted_output,
                   submitted_output_full, report, raw_report, custom_prompt, summary>>

\* run_p4_command, lines 20-23: the child exits with status 0.
RunP4Succeeds(command) ==
    p4_log' = Append(p4_log, [cmd |-> P4Cmd(command), ok |-> TRUE])

\* Lines 111-114 with get_workspace_depot_paths (lines 29-57).
P4Client(outputs) ==
    /\ pc = "p4_client"
    /\ \/ RunP4Fails(ClientCmd)
       \/ \E out \in outputs :
              /\ RunP4Succeeds(ClientCmd)
              /\ client_output' = Some(out)
              /\ IF ParseView(out) # <<>>
                 THEN /\ depot_paths' = Some(ParseView(out))
                      /\ UNCHANGED stderr
                 ELSE /\ depot_paths' = None
                      /\ stderr' = Append(stderr, "Warning: Could not determine depot paths")
              /\ pc' = "p4_pending"
              /\ UNCHANGED <<args, fs, fs0, http_log, pending_output,
                             pending_changes, submitted_output,
                             submitted_output_full, report, raw_report,
                             custom_prompt, summary, exit_code>>

\* Lines 126-133: the pending query and its parsing.
P4Pending(outputs) ==
    /\ pc = "p4_pending"
    /\ \/ RunP4Fails(PendingCmd(PathFilter(depot_paths)))
       \/ \E out \in outputs :
              /\ RunP4Succeeds(PendingCmd(PathFilter(depot_paths)))
              /\ pending_output' = Some(out)
              /\ pending_changes' =
                     parse_pending_changes(out, args.start_date, args.end_date)
              /\ pc' = "p4_submitted"
              /\ UNCHANGED <<args, fs, fs0, http_log, client_output, depot_paths,
                             submitted_output, submitted_output_full, report,
                             raw_report, custom_prompt, summary, exit_code, stderr>>

\* Lines 136-167: the short submitted query, the count, and the writes of
\* the metadata and of the pending section.
P4Submitted ==
    /\ pc = "p4_submitted"
    /\ LET cmd == SubmittedCmd(PathFilter(depot_paths), args.start_date, args.end_date)
       IN \/ RunP4Fails(cmd)
          \/ \E out \in SubmittedOutputs :
                 /\ RunP4Succeeds(cmd)
                 /\ submitted_output' = Some(out)
                 /\ report' = MetadataWrites(args.start_date, args.end_date, ReportDate,
                                             Len(pending_changes), SubmittedCount(out))
                                  \o PendingSection(pending_changes)
                 /\ pc' = "p4_submitted_full"
                 /\ UNCHANGED <<args, fs, fs0, http_log, client_output, depot_paths,
                                pending_output, pending_changes,
                                submitted_output_full, raw_report, custom_prompt,
                                summary, exit_code, stderr>>

\* Lines 170-186: the long submitted query and the submitted section; the
\* report is returned through the `timed` wrapper (decorators.py 12-17).
P4SubmittedFull ==
    /\ pc = "p4_submitted_full"
    /\ LET cmd == SubmittedCmdFull(PathFilter(depot_paths), args.start_date, args.end_date)
       IN \/ RunP4Fails(cmd)
          \/ \E out \in SubmittedFullOutputs :
                 /\ RunP4Succeeds(cmd)
                 /\ submitted_output_full' = Some(out)
                 /\ report' = report \o SubmittedSection(out)
                 /\ raw_report' = Some(Concat(report'))
                 /\ stderr' = Append(stderr, "generate_raw_report took")
                 /\ pc' = "save_raw"
                 /\ UNCHANGED <<args, fs, fs0, http_log, client_output, depot_paths,
                                pending_output, pending_changes, submitted_output,
                                custom_prompt, summary, exit_code>>

\* Lines 269-272: the raw report is saved when --raw-output is given.
Main_SaveRaw ==
    /\ pc = "save_raw"
    /\ IF Truthy(args.raw_output)
       THEN /\ fs' = [fs EXCEPT !.raw = raw_report, !.written = @ \cup {"raw"}]
            /\ stderr' = Append(stderr, "Raw report saved to")
       ELSE UNCHANGED <<fs, stderr>>
    /\ pc' = "ai"
    /\ UNCHANGED <<args, fs0, p4_log, http_log, client_output, depot_paths,
                   pending_output, pending_changes, submitted_output,
                   submitted_output_full, report, raw_report, custom_prompt,
                   summary, exit_code>>

\* Line 275 is false: main returns and the process exits with status 0.
Main_NoAi ==
    /\ pc = "ai"
    /\ ~AiRequested(args)
    /\ Exit(0, <<>>)
    /\ UNCHANGED <<args, fs, fs0, p4_log, http_log, client_output, depot_paths,
                   pending_output, pending_changes, submitted_output,
                   submitted_output_full, report, raw_report, custom_prompt, summary>>

\* Lines 277-289: the prompt file is read; an unreadable file ends the run
\* with status 1, an empty prompt ends it with status 0.
Main_ReadPrompt ==
    /\ pc = "ai"
    /\ AiRequested(args)
    /\ IF IsNone(fs.prompt)
       THEN /\ Exit(1, <<"Error reading custom prompt file">>)
            /\ UNCHANGED custom_prompt
       ELSE /\ custom_prompt' = fs.prompt
            /\ IF Truthy(fs.prompt)
               THEN /\ stderr' = Append(stderr, "Generating AI report using")
                    /\ pc' = "http"
                    /\ UNCHANGED exit_code
               ELSE Exit(0, <<>>)
    /\ UNCHANGED <<args, fs, fs0, p4_log, http_log, client_output, depot_paths,
                   pending_output, pending_changes, submitted_output,
                   submitted_output_full, report, raw_report, summary>>

\* Lines 290-296 with generate_ai_report (lines 189-218): one POST, then
\* main ends the run with status 1 when the summary is None or empty.
Main_GenerateAiReport ==
    /\ pc = "http"
    /\ \E outcome \in HttpOutcomes :
           LET prompt == BuildPrompt(Val(custom_prompt), Val(raw_report))
           IN /\ http_log' = Append(http_log, [report_text |-> Val(raw_report),
                                               prompt |-> prompt,
                                               num_ctx |-> NumCtx(prompt),
                                               outcome |-> outcome])
              /\ summary' = AiResult(outcome)
              /\ IF Truthy(AiResult(outcome))
                 THEN /\ stderr' = stderr \o (IF outcome.ok THEN <<>>
                                               ELSE <<"Error connecting to Ollama",
                                                      "Make sure Ollama is running">>)
                                          \o <<"generate_ai_report took">>
                      /\ pc' = "save_ai"
                      /\ UNCHANGED exit_code
                 ELSE Exit(1, (IF outcome.ok THEN <<>>
                               ELSE <<"Error connecting to Ollama",
                                      "Make sure Ollama is running">>)
                              \o <<"generate_ai_report took",
                                   "Warning: Could not generate AI report">>)
    /\ UNCHANGED <<args, fs, fs0, p4_log, client_output, depot_paths,
                   pending_output, pending_changes, submitted_output,
                   submitted_output_full, report, raw_report, custom_prompt>>

\* Lines 299-301: the summary is saved and main returns.
Main_SaveAi ==
    /\ pc = "save_ai"
    /\ fs' = [fs EXCEPT !.ai = summary, !.written = @ \cup {"ai"}]
    /\ Exit(0, <<"AI report saved to">>)
    /\ UNCHANGED <<args, fs0, p4_log, http_log, client_output, depot_paths,
                   pending_output, pending_changes, submitted_output,
                   submitted_output_full, report, raw_report, custom_prompt, summary>>

Next ==
    \/ Main_InvalidDate
    \/ Main_ReuseRaw
    \/ Main_Generate
    \/ P4Client(ClientOutputs)
    \/ P4Pending(PendingOutputs)
    \/ P4Submitted
    \/ P4SubmittedFull
    \/ Main_SaveRaw
    \/ Main_NoAi
    \/ Main_ReadPrompt
    \/ Main_GenerateAiReport
    \/ Main_SaveAi

Spec == Init /\ [][Next]_vars

----------------------------------------------------------------------------
(* ParseSpec: the pending query answered with every listing of at most     *)
(* MaxLines lines, for every date range of the input sets.                 *)

Listings == {Text(lines) : lines \in SeqsUpTo(ListingLines, MaxLines)}

ParseInit ==
    /\ pc = "p4_pending"
    /\ \E s \in StartDates, e \in {None} \cup {Some(FormatDate(dt, "-")) : dt \in EndDates} :
           args = ArgsWithDates(FormatDate(s, "-"), e)
    /\ Idle(AllNames \ {"args"})

ParseNext == P4Pending(Listings)

ParseSpec == ParseInit /\ [][ParseNext]_vars

----------------------------------------------------------------------------
(* ViewSpec: the workspace query answered with every workspace definition  *)
(* of at most MaxViewLines lines.                                          *)

ViewListingLines == {S_ClientLine, S_ViewLine, S_Mapping, S_Exclusion, <<>>}

ViewListings == {Text(lines) : lines \in SeqsUpTo(ViewListingLines, MaxViewLines)}

ViewInit ==
    /\ pc = "p4_client"
    /\ Idle(AllNames)

ViewNext == P4Client(ViewListings)

ViewSpec == ViewInit /\ [][ViewNext]_vars

----------------------------------------------------------------------------
(* CtxSpec: generate_ai_report called with prompts and reports of every    *)
(* length up to MaxPrompt and MaxReport.                                   *)

Filler(n) == [i \in 1..n |-> "x"]

CtxInit ==
    /\ pc = "http"
    /\ \E n \in 1..MaxPrompt : custom_prompt = Some(Filler(n))
    /\ \E n \in 0..MaxReport : raw_report = Some(Filler(n))
    /\ Idle(AllNames \ {"custom_prompt", "raw_report"})

CtxNext == Main_GenerateAiReport

CtxSpec == CtxInit /\ [][CtxNext]_vars

----------------------------------------------------------------------------
(* Properties of parse_pending_changes (ParseSpec).                        *)

\* The date a text in the form Y<sep>M<sep>D denotes.
ParseYMD(text, sep) ==
    LET p == Split(text, sep)
    IN Date(IntOf(p[1]), IntOf(p[2]), IntOf(p[3]))

ListingOf(output) == Split(Val(output), "\n")

IsHeaderLine(line) == StartsWith(line, S_Change)

WellFormedHeader(line) == IsHeaderLine(line) /\ Len(SplitWs(line)) >= 4

MalformedHeader(line) == IsHeaderLine(line) /\ Len(SplitWs(line)) < 4

HeaderDate(line) == ParseYMD(SplitWs(line)[4], "/")

\* The calendar meaning of the requested range: start <= dt, and dt <= end
\* when an end date is given.
CalendarInRange(dt) ==
    /\ DayNum(ParseYMD(args.start_date, "-")) <= DayNum(dt)
    /\ (Truthy(args.end_date) => DayNum(dt) <= DayNum(ParseYMD(Val(args.end_date), "-")))

RangeCoversAllHeaders ==
    \A i \in 1..Len(ListingOf(pending_output)) :
        WellFormedHeader(ListingOf(pending_output)[i])
            => CalendarInRange(HeaderDate(ListingOf(pending_output)[i]))

HeadersOf(changes) == [i \in 1..Len(changes) |-> changes[i].header]

\* C1: when the range covers the dates of all well-formed headers, the
\* parser returns exactly one record per well-formed header, in the order of
\* the headers in the input, whatever other lines the input holds.
C1_OneRecordPerHeader ==
    (pc = "p4_submitted" /\ RangeCoversAllHeaders)
        => HeadersOf(pending_changes)
               = SelectSeq(ListingOf(pending_output), WellFormedHeader)

\* The same statement for the listings without a malformed header line.
C1_OneRecordPerHeaderNoMalformed ==
    (/\ pc = "p4_submitted"
     /\ RangeCoversAllHeaders
     /\ \A i \in 1..Len(ListingOf(pending_output)) :
            ~MalformedHeader(ListingOf(pending_output)[i]))
        => HeadersOf(pending_changes)
               = SelectSeq(ListingOf(pending_output), WellFormedHeader)

\* The listing with every malformed header line replaced by an empty line,
\* which the parser ignores.
WithoutMalformed(output) ==
    Join([i \in 1..Len(ListingOf(output)) |->
              IF MalformedHeader(ListingOf(output)[i]) THEN <<>>
              ELSE ListingOf(output)[i]], <<"\n">>)

\* C2: a malformed header line produces no record and does not change what
\* is returned for the other lines: the result equals the result for the
\* listing with the malformed header lines replaced by ignored lines.
C2_MalformedHeaderIgnored ==
    pc = "p4_submitted"
        => pending_changes
               = parse_pending_changes(WithoutMalformed(pending_output),
                                       args.start_date, args.end_date)

\* C3: a record opened by a well-formed header is in the result if and only
\* if its date lies in the requested range, both bounds included, with no
\* upper bound when no end date is given.
C3_BoundaryInclusive ==
    pc = "p4_submitted"
        => \A i \in 1..Len(ListingOf(pending_output)) :
               LET line == ListingOf(pending_output)[i]
               IN WellFormedHeader(line)
                      => ((\E j \in 1..Len(pending_changes) :
                               pending_changes[j].header = line)
                              <=> CalendarInRange(HeaderDate(line)))

HasHeaderDated(n) ==
    \E i \in 1..Len(ListingOf(pending_output)) :
        /\ WellFormedHeader(ListingOf(pending_output)[i])
        /\ DayNum(HeaderDate(ListingOf(pending_output)[i])) = n

HasRecordDated(n) ==
    \E j \in 1..Len(pending_changes) :
        DayNum(ParseYMD(pending_changes[j].date, "/")) = n

\* A parsed listing with a header dated on the end boundary, which is in
\* the result, one dated the day after the end and one dated the day before
\* the start, which are not.
C3_Witness ==
    /\ pc = "p4_submitted"
    /\ Truthy(args.end_date)
    /\ LET s == DayNum(ParseYMD(args.start_date, "-"))
           e == DayNum(ParseYMD(Val(args.end_date), "-"))
       IN /\ HasHeaderDated(e) /\ HasRecordDated(e)
          /\ HasHeaderDated(e + 1) /\ ~HasRecordDated(e + 1)
          /\ HasHeaderDated(s - 1) /\ ~HasRecordDated(s - 1)

\* A parsed listing with a header dated on the start boundary, which is in
\* the result, and no end date.
C3_WitnessStart ==
    /\ pc = "p4_submitted"
    /\ ~Truthy(args.end_date)
    /\ LET s == DayNum(ParseYMD(args.start_date, "-"))
       IN HasHeaderDated(s) /\ HasRecordDated(s) /\ HasHeaderDated(s - 1)

----------------------------------------------------------------------------
(* Properties of get_workspace_depot_paths (ViewSpec).                     *)

IsMappingLine(line) == StartsWith(Strip(line), S_SlashSlash)

IsExclusionLine(line) == StartsWith(Strip(line), S_Dash \o S_SlashSlash)

NotBlankLine(line) == Strip(line) # <<>>

\* The non-blank lines that follow the first "View:" line.
ViewSection(lines) ==
    LET heads == {i \in 1..Len(lines) : StartsWith(lines[i], S_View)}
    IN IF heads = {} THEN <<>>
       ELSE SelectSeq(SubSeq(lines, NthOf(heads, 1) + 1, Len(lines)), NotBlankLine)

\* The view section holds one normal mapping and one exclusion mapping, in
\* either order.
OneMappingOneExclusion(lines) ==
    LET v == ViewSection(lines)
    IN /\ Len(v) = 2
       /\ \/ IsMappingLine(v[1]) /\ IsExclusionLine(v[2])
          \/ IsExclusionLine(v[1]) /\ IsMappingLine(v[2])

\* The depot path of the normal mapping of the view section.
NormalDepotPath(lines) ==
    LET v == ViewSection(lines)
    IN SplitWs(IF IsMappingLine(v[1]) THEN v[1] ELSE v[2])[1]

\* C4: for a workspace definition whose view holds one normal mapping and
\* one exclusion mapping, in either order, the resolver returns exactly the
\* depot path of the normal mapping.
C4_ExclusionSkipped ==
    (/\ pc = "p4_pending"
     /\ ~IsNone(client_output)
     /\ OneMappingOneExclusion(ListingOf(client_output)))
        => depot_paths = Some(<<NormalDepotPath(ListingOf(client_output))>>)

\* The same statement for the views whose normal mapping comes first.
C4_ExclusionAfterMapping ==
    (/\ pc = "p4_pending"
     /\ ~IsNone(client_output)
     /\ OneMappingOneExclusion(ListingOf(client_output))
     /\ IsMappingLine(ViewSection(ListingOf(client_output))[1]))
        => depot_paths = Some(<<NormalDepotPath(ListingOf(client_output))>>)

----------------------------------------------------------------------------
(* Properties of the context size (CtxSpec).                               *)

\* n is a power of two: n >= 1 and every divisor of n above 1 is even.
IsPowerOfTwo(n) == n >= 1 /\ \A d \in 2..n : (n % d = 0 => d % 2 = 0)

\* C7: the context size sent with a prompt of length L is a power of two
\* >= 1, is the smallest power of two >= e = floor(2L/3) when e >= 1, and
\* is not below the context size of any shorter prompt (a prompt holds at
\* least the two newlines that join the custom prompt and the report).
C7_ContextSize ==
    \A i \in 1..Len(http_log) :
        LET len == Len(http_log[i].prompt)
            e == (2 * len) \div 3
            ctx == http_log[i].num_ctx
        IN /\ IsPowerOfTwo(ctx)
           /\ (e >= 1 => ctx >= e /\ (ctx = 1 \/ ctx \div 2 < e))
           /\ \A shorter \in 2..len : NumCtx(Filler(shorter)) <= ctx

\* A request whose estimate is a power of two (e = 4, kept as it is) has
\* been sent.
C7_Witness ==
    \E i \in 1..Len(http_log) :
        /\ (2 * Len(http_log[i].prompt)) \div 3 = 4
        /\ http_log[i].num_ctx = 4

----------------------------------------------------------------------------
(* Properties of a run of main (Spec).                                     *)

Range(q) == {q[i] : i \in 1..Len(q)}

\* The subcommand of an argument vector: what follows the identity.
Subcommand(cmd) == SubSeq(cmd, Len(P4Cmd(<<>>)) + 1, Len(cmd))

\* Which of the four queries an argument vector is.
QueryKind(cmd) ==
    IF Subcommand(cmd)[1] = S_client THEN "workspace"
    ELSE IF S_pending \in Range(Subcommand(cmd)) THEN "pending"
    ELSE IF S_l \in Range(Subcommand(cmd)) THEN "submitted long"
    ELSE "submitted short"

QueryKinds == [i \in 1..Len(p4_log) |-> QueryKind(p4_log[i].cmd)]

SomeQueryFailed == \E i \in 1..Len(p4_log) : ~p4_log[i].ok

\* C5: when a client invocation exits with a non-zero status the program
\* terminates with a non-zero exit code, the failed invocation is the last
\* external call of the run, and no file is written.
C5_ClientFailureIsFatal ==
    \A i \in 1..Len(p4_log) :
        ~p4_log[i].ok
            => /\ pc = "exit"
               /\ ~IsNone(exit_code) /\ Val(exit_code) # 0
               /\ i = Len(p4_log)
               /\ http_log = <<>>
               /\ fs.written = {}
               /\ fs = fs0

\* The long submitted query, the fourth invocation, has failed in a run
\* that was asked for both files.
C5_Witness ==
    /\ Len(p4_log) = 4
    /\ ~p4_log[4].ok
    /\ Truthy(args.raw_output)
    /\ AiRequested(args)
    /\ pc = "exit"

\* A fatal error: an invalid date, a failed client command, an unreadable
\* input file, or a failed summary request.
FatalError ==
    \/ ~DatesValid(args)
    \/ SomeQueryFailed
    \/ "Error reading raw report file" \in Range(stderr)
    \/ "Error reading custom prompt file" \in Range(stderr)
    \/ \E i \in 1..Len(http_log) : ~http_log[i].outcome.ok

\* C6: the program exits with code 1 exactly when a fatal error occurred and
\* with code 0 otherwise; a run whose HTTP request succeeded, with or without
\* a `response` field and whatever its text, exits 0 and has written the AI
\* summary file.
C6_ExitCodes ==
    pc = "exit"
        => /\ exit_code \in {Some(0), Some(1)}
           /\ (exit_code = Some(1) <=> FatalError)
           /\ \A i \in 1..Len(http_log) :
                  http_log[i].outcome.ok
                      => exit_code = Some(0) /\ "ai" \in fs.written /\ fs.ai = summary

\* The same statement for the responses whose `response` text, when there
\* is one, is not empty.
C6_ExitCodesNonEmptyResponse ==
    (/\ pc = "exit"
     /\ \A i \in 1..Len(http_log) : http_log[i].outcome.response # Some(<<>>))
        => /\ exit_code \in {Some(0), Some(1)}
           /\ (exit_code = Some(1) <=> FatalError)
           /\ \A i \in 1..Len(http_log) :
                  http_log[i].outcome.ok
                      => exit_code = Some(0) /\ "ai" \in fs.written /\ fs.ai = summary

ExpectedQueries ==
    (IF Truthy(args.depot) THEN <<>> ELSE <<"workspace">>)
        \o <<"pending", "submitted short", "submitted long">>

NotLongFlag(arg) == arg # S_l

\* C8: the client queries of a run are issued at most once each and in the
\* order workspace (only without --depot), pending, submitted short,
\* submitted long; nothing is issued after a failure; a generated report has
\* issued each exactly once; the two submitted queries differ only by -l.
C8_QueriesOnceInOrder ==
    /\ Len(p4_log) <= Len(ExpectedQueries)
    /\ QueryKinds = SubSeq(ExpectedQueries, 1, Len(p4_log))
    /\ \A i \in 1..Len(p4_log) : (~p4_log[i].ok => i = Len(p4_log))
    /\ (~IsNone(submitted_output_full)
            => Len(p4_log) = Len(ExpectedQueries) /\ ~SomeQueryFailed)
    /\ (Len(p4_log) = Len(ExpectedQueries)
            => SelectSeq(p4_log[Len(p4_log)].cmd, NotLongFlag)
                   = p4_log[Len(p4_log) - 1].cmd)

\* A run without --depot whose workspace query found a depot path has issued
\* its four queries.
C8_Witness ==
    /\ ~Truthy(args.depot)
    /\ Truthy(depot_paths)
    /\ Len(p4_log) = 4
    /\ ~SomeQueryFailed

\* The writes of the pending section: after the seven writes of the
\* metadata, before the last write (the submitted section).
PendingWrites == SubSeq(report, 8, Len(report) - 1)

IsHeaderWrite(w) == StartsWith(w, S_NL)

\* The text of one record: its header, then its description lines in order.
RECURSIVE RecordsText(_)
RecordsText(changes) ==
    IF changes = <<>> THEN <<>>
    ELSE S_NL \o Head(changes).header \o S_NL
             \o Concat([i \in 1..Len(Head(changes).description) |->
                            Head(changes).description[i] \o S_NL])
             \o RecordsText(Tail(changes))

IsBlankText(text) == \A i \in 1..Len(text) : IsSpace(text[i])

\* C9: in a finished report the count of the "Pending:" line is the number
\* of records written in the pending section (each header followed by its
\* description lines), the "No pending changes" notice is written exactly
\* when that number is 0, and the "No submitted changes" notice is written
\* exactly when the long submitted output is blank; otherwise that output is
\* embedded as it is.
C9_ReportSections ==
    ~IsNone(submitted_output_full)
        => LET k == Len(SelectSeq(PendingWrites, IsHeaderWrite))
               last == report[Len(report)]
           IN /\ StartsWith(report[6], S_PendingLabel \o Dec(k) \o S_SubmittedLabel)
              /\ (S_NoPending \in Range(PendingWrites) <=> k = 0)
              /\ (k = 0 => PendingWrites = <<S_NoPending>>)
              /\ (k > 0 => /\ k = Len(pending_changes)
                           /\ Concat(PendingWrites) = RecordsText(pending_changes))
              /\ (last = S_NoSubmitted <=> IsBlankText(Val(submitted_output_full)))
              /\ (~IsBlankText(Val(submitted_output_full))
                      => last = Val(submitted_output_full) \o S_NL)
              /\ raw_report = Some(Concat(report))

\* A finished report with two pending records and a long submitted output
\* that is a lone newline.
C9_Witness ==
    /\ ~IsNone(submitted_output_full)
    /\ Len(SelectSeq(PendingWrites, IsHeaderWrite)) = 2
    /\ Val(submitted_output_full) = S_NL
    /\ report[Len(report)] = S_NoSubmitted

\* The run reuses the raw report: the flag is set, a path is given and a
\* file was there when the run started.
ReuseCase == Truthy(args.raw_output) /\ args.raw_reuse /\ ~IsNone(fs0.raw)

\* C10: in the reuse case no client command is invoked, the raw report file
\* is left as it was and the text given to the summary request is the
\* content of that file; in every other case the text given to the summary
\* request is the report generated by the client commands, and it has been
\* written to the raw output path, when one is given, before the request.
C10_Reuse ==
    /\ ReuseCase
           => /\ p4_log = <<>>
              /\ fs.raw = fs0.raw
              /\ "raw" \notin fs.written
              /\ \A i \in 1..Len(http_log) :
                     /\ http_log[i].report_text = Val(fs0.raw)
                     /\ http_log[i].prompt = Val(custom_prompt) \o S_NL \o S_NL \o Val(fs0.raw)
    /\ ~ReuseCase
           => \A i \in 1..Len(http_log) :
                  /\ Len(p4_log) = Len(ExpectedQueries)
                  /\ ~SomeQueryFailed
                  /\ report # <<>>
                  /\ http_log[i].report_text = Concat(report)
                  /\ (Truthy(args.raw_output)
                          => "raw" \in fs.written /\ fs.raw = Some(Concat(report)))
                  /\ (~Truthy(args.raw_output) => "raw" \notin fs.written)

\* A summary request has been made in the reuse case.
C10_Witness == ReuseCase /\ http_log # <<>> /\ ~IsNone(fs0.raw) /\ fs0.raw # Some(<<>>)

\* A summary request has been made after a generated report was saved over
\* an existing file.
C10_WitnessGenerated ==
    ~ReuseCase /\ http_log # <<>> /\ ~IsNone(fs0.raw) /\ "raw" \in fs.written

====
